---- MODULE Spec2Model ----
(***************************************************************************)
(* Memory-level model of RedBlackTree (include/red-black-tree.hpp) and of  *)
(* the mystl::map facade (include/map.hpp).                                *)
(*                                                                         *)
(* Nodes live at addresses 1..MaxAddr; NULL is the null pointer.  The      *)
(* owning links (root, Node::left, Node::right) are std::unique_ptr: an    *)
(* assignment to a link that still holds a node destroys that node and,    *)
(* recursively, everything it owns.  Node::parent is a raw pointer.        *)
(* Released memory keeps its last contents; an access to it is recorded    *)
(* in uaf and the process may be aborted at that point.                    *)
(***************************************************************************)
EXTENDS Integers, Sequences, FiniteSets, TLC

\* ---- bounds ----
MaxKey  == 4          \* keys are 1..MaxKey
MaxVal  == 1          \* mapped values are 1..MaxVal; 0 is mapped_type()
MaxAddr == 4          \* node storage the allocator can hand out
MaxFuel == 12         \* iterations after which a fixup loop counts as hung
MaxWrap == 1          \* how far node_count may be decremented below zero
MaxNodes == 3         \* nodes in use at once in SpecKeys, SpecCalls, SpecTwo
MaxOther == 2         \* nodes in use at once in the second map of SpecTwo
MaxCallKey == 3       \* the calls of SpecCalls take their keys in 1..MaxCallKey
MaxBoth == 4          \* nodes in use at once in the two maps of SpecMerge

Keys == 1..MaxKey
CallKeys == 1..MaxCallKey
Vals == 1..MaxVal
Addr == 1..MaxAddr
NULL == 0
DefaultVal == 0

RED   == "RED"
BLACK == "BLACK"

VARIABLES
    root,        \* RedBlackTree::root (address or NULL)
    mem,         \* contents of every node address, released ones included
    live,        \* addresses allocated and not yet released
    node_count,  \* RedBlackTree::node_count, a size_t: the value -n stands
                 \* for 2^64 - n (the counter wrapped below zero)
    status,      \* "ok", "crashed" (abort / null dereference) or "hung"
    net,         \* insertNode calls minus removeNode calls that found their
                 \* key, since the last clear
    held,        \* per key: insertions minus successful erases since the
                 \* last clear (recorded by SpecDistinct only)
    thrown,      \* the exception that the last call was left by and its
                 \* caller caught, "none" when it returned
    rhs          \* a second map of the program, the right operand of a
                 \* comparison: its root, mem, live and node_count, and in
                 \* held the pairs inserted into it and not erased since

vars == <<root, mem, live, node_count, status, net, held, thrown, rhs>>

\* struct Node {data, color, left, right, parent}
Node(k, v) ==
    [key |-> k, val |-> v, color |-> RED, left |-> NULL, right |-> NULL,
     parent |-> NULL]

Blank == [key |-> 0, val |-> 0, color |-> BLACK, left |-> NULL,
          right |-> NULL, parent |-> NULL]

\* ---- the machine state threaded through one operation ----
\* tmp is the local unique_ptr of the running function (y, x or newNode);
\* uaf: the operation read or wrote a released node; dfree: it released a
\* node twice; fault: it dereferenced null or was aborted; freed: the nodes
\* the operation has released so far, in the order of their release
Cur ==
    [root |-> root, tmp |-> NULL, mem |-> mem, live |-> live,
     node_count |-> node_count, fault |-> FALSE, hung |-> FALSE,
     uaf |-> FALSE, dfree |-> FALSE, freed |-> <<>>]

\* the machine state of an operation on the second map
Rhs ==
    [root |-> rhs.root, tmp |-> NULL, mem |-> rhs.mem, live |-> rhs.live,
     node_count |-> rhs.node_count, fault |-> FALSE, hung |-> FALSE,
     uaf |-> FALSE, dfree |-> FALSE, freed |-> <<>>]

Fault(s) == [s EXCEPT !.fault = TRUE]

\* statement sequencing: the value v of what ran so far, handed on to the
\* statements that follow
Then(v, Rest(_)) == Rest(v)

Stopped(s) == s.fault \/ s.hung

\* p->f read; a null p is caught by the guard or the write next to the read
Fld(s, p, f) == IF p = NULL THEN NULL ELSE s.mem[p][f]

\* p->f = v
Wr(s, p, f, v) ==
    IF Stopped(s) THEN s
    ELSE IF p = NULL THEN Fault(s)
    ELSE [s EXCEPT !.mem[p][f] = v, !.uaf = @ \/ (p \notin s.live)]

\* ---- std::unique_ptr<Node, NodeDeleter> ----
\* A link is <<owner, field>>: a child link of node owner, or with owner
\* NULL the tree's root ("root") or a local variable ("tmp").
RootLink == <<NULL, "root">>
TmpLink  == <<NULL, "tmp">>

Get(s, link) ==
    IF link[1] = NULL THEN s[link[2]] ELSE s.mem[link[1]][link[2]]

Set(s, link, v) ==
    IF Stopped(s) THEN s
    ELSE IF link[1] = NULL THEN [s EXCEPT ![link[2]] = v]
    ELSE Wr(s, link[1], link[2], v)

\* NodeDeleter::operator(): ~Node destroys right, then left (members in
\* reverse order of declaration), then the storage is deallocated.
RECURSIVE Destroy(_, _)
Destroy(s, p) ==
    IF Stopped(s) THEN s
    ELSE IF p \notin s.live THEN [s EXCEPT !.dfree = TRUE, !.fault = TRUE]
    ELSE Then(IF s.mem[p].right = NULL THEN s
              ELSE Destroy(s, s.mem[p].right), LAMBDA s1 :
         Then(Wr(s1, p, "right", NULL), LAMBDA s2 :
         Then(IF s2.mem[p].left = NULL THEN s2
              ELSE Destroy(s2, s2.mem[p].left), LAMBDA s3 :
         Then(Wr(s3, p, "left", NULL), LAMBDA s4 :
              IF Stopped(s4) THEN s4
              ELSE [s4 EXCEPT !.live = @ \ {p},
                              !.freed = Append(@, p)]))))

\* unique_ptr::reset(p): store p, then delete the node held before
Reset(s, link, p) ==
    LET old == Get(s, link)
        s1  == Set(s, link, p)
    IN  IF old = NULL THEN s1 ELSE Destroy(s1, old)

\* dst = std::move(src): reset(src.release()), then the deleter of src is
\* read again, from a node that the reset may just have released
MoveAssign(s, dst, src) ==
    IF Stopped(s) THEN s
    ELSE Then(Reset(Set(s, src, NULL), dst, Get(s, src)), LAMBDA s2 :
              IF Stopped(s2) THEN s2
              ELSE IF src[1] # NULL /\ src[1] \notin s2.live
                   THEN [s2 EXCEPT !.uaf = TRUE]
                   ELSE s2)

\* ---- RedBlackTree private helpers ----
getLink(s, x) ==
    LET p == s.mem[x].parent
    IN  IF p = NULL THEN RootLink
        ELSE IF x = s.mem[p].left THEN <<p, "left">>
        ELSE <<p, "right">>

\* a leftRotate that leaves the parent pointer of the subtree that moves
\* from y to x as it was
leftRotate_keeps_moved_parent(s, x) ==
    IF Stopped(s) THEN s
    ELSE IF x = NULL \/ s.mem[x].right = NULL THEN s
    ELSE LET xLink == getLink(s, x)
         IN
         Then(MoveAssign([s EXCEPT !.tmp = NULL], TmpLink, <<x, "right">>),
              LAMBDA s1 :
         Then(s1.tmp, LAMBDA y :
         Then(MoveAssign(s1, <<x, "right">>, <<y, "left">>), LAMBDA s3 :
         Then(Wr(s3, y, "parent", Fld(s3, x, "parent")), LAMBDA s4 :
         Then(MoveAssign(s4, <<y, "left">>, xLink), LAMBDA s5 :
         Then(Wr(s5, Fld(s5, y, "left"), "parent", y), LAMBDA s6 :
              MoveAssign(s6, xLink, TmpLink)))))))

leftRotate(s, x) ==
    IF Stopped(s) THEN s
    ELSE IF x = NULL \/ s.mem[x].right = NULL THEN s
    ELSE LET xLink == getLink(s, x)
         IN
         Then(MoveAssign([s EXCEPT !.tmp = NULL], TmpLink, <<x, "right">>),
              LAMBDA s1 :
         Then(s1.tmp, LAMBDA y :
         Then(IF s1.mem[y].left # NULL
              THEN Wr(s1, s1.mem[y].left, "parent", x) ELSE s1, LAMBDA s2 :
         Then(MoveAssign(s2, <<x, "right">>, <<y, "left">>), LAMBDA s3 :
         Then(Wr(s3, y, "parent", Fld(s3, x, "parent")), LAMBDA s4 :
         Then(MoveAssign(s4, <<y, "left">>, xLink), LAMBDA s5 :
         Then(Wr(s5, Fld(s5, y, "left"), "parent", y), LAMBDA s6 :
              MoveAssign(s6, xLink, TmpLink))))))))

rightRotate(s, y) ==
    IF Stopped(s) THEN s
    ELSE IF y = NULL \/ s.mem[y].left = NULL THEN s
    ELSE LET yLink == getLink(s, y)
         IN
         Then(MoveAssign([s EXCEPT !.tmp = NULL], TmpLink, <<y, "left">>),
              LAMBDA s1 :
         Then(s1.tmp, LAMBDA x :
         Then(IF s1.mem[x].right # NULL
              THEN Wr(s1, s1.mem[x].right, "parent", y) ELSE s1, LAMBDA s2 :
         Then(MoveAssign(s2, <<y, "left">>, <<x, "right">>), LAMBDA s3 :
         Then(Wr(s3, x, "parent", Fld(s3, y, "parent")), LAMBDA s4 :
         Then(MoveAssign(s4, <<x, "right">>, yLink), LAMBDA s5 :
         Then(Wr(s5, Fld(s5, x, "right"), "parent", x), LAMBDA s6 :
              MoveAssign(s6, yLink, TmpLink))))))))

\* the side of the tree a fixup works on and the rotation towards it
Other(side) == IF side = "left" THEN "right" ELSE "left"

Rotate(s, side, x) ==
    IF side = "left" THEN leftRotate(s, x) ELSE rightRotate(s, x)

\* find: descent with the comparator std::less<Key>
RECURSIVE findFrom(_, _, _)
findFrom(s, current, key) ==
    IF current = NULL THEN NULL
    ELSE IF key < s.mem[current].key
         THEN findFrom(s, s.mem[current].left, key)
    ELSE IF s.mem[current].key < key
         THEN findFrom(s, s.mem[current].right, key)
    ELSE current

find(s, key) == findFrom(s, s.root, key)

\* one iteration of the fixInsert loop for a parent that is the `side`
\* child of the grandparent ("left": lines 130-148, "right": lines 152-171)
fixInsertStep(s, z, side) ==
    LET p == s.mem[z].parent
        g == s.mem[p].parent
        y == s.mem[g][Other(side)]
    IN  IF y # NULL /\ s.mem[y].color = RED
        THEN <<Wr(Wr(Wr(s, p, "color", BLACK), y, "color", BLACK),
                  g, "color", RED), g>>
        ELSE LET inner == (z = s.mem[p][Other(side)])
                 z1 == IF inner THEN p ELSE z
             IN
             Then(IF inner THEN Rotate(s, side, z1) ELSE s, LAMBDA s1 :
             Then(Fld(s1, z1, "parent"), LAMBDA p1 :
             Then(Wr(s1, p1, "color", BLACK), LAMBDA s2 :
             Then(Fld(s2, p1, "parent"), LAMBDA g1 :
             Then(Wr(s2, g1, "color", RED), LAMBDA s3 :
                  <<Rotate(s3, Other(side), g1), z1>>)))))

RECURSIVE fixInsertLoop(_, _, _)
fixInsertLoop(s, z, fuel) ==
    IF Stopped(s) THEN s
    ELSE IF z = s.root THEN s
    ELSE IF z = NULL \/ s.mem[z].parent = NULL THEN Fault(s)
    ELSE IF s.mem[s.mem[z].parent].color # RED THEN s
    ELSE IF fuel = 0 THEN [s EXCEPT !.hung = TRUE]
    ELSE LET p == s.mem[z].parent
             g == s.mem[p].parent
         IN  IF g = NULL THEN Fault(s)
             ELSE Then(fixInsertStep(s, z, IF p = s.mem[g].left
                                           THEN "left" ELSE "right"),
                       LAMBDA r : fixInsertLoop(r[1], r[2], fuel - 1))

\* a fixInsert that leaves the root as the loop coloured it
fixInsert_keeps_root_color(s, z) ==
    fixInsertLoop(s, z, MaxFuel)

fixInsert(s, z) ==
    Then(fixInsertLoop(s, z, MaxFuel),
         LAMBDA s1 : Wr(s1, s1.root, "color", BLACK))

\* the descent of insertNode: the node under which the new node is linked
RECURSIVE descend(_, _, _, _)
descend(s, x, y, key) ==
    IF x = NULL THEN y
    ELSE IF key < s.mem[x].key THEN descend(s, s.mem[x].left, x, key)
    ELSE descend(s, s.mem[x].right, x, key)

\* createNode: storage a from the allocator, Node(val) constructed in it
createNode(s, a, k, v) ==
    [s EXCEPT !.mem[a] = Node(k, v), !.live = @ \cup {a}]

\* the ways createNode can fail: node_alloc.allocate throws ("bad_alloc"),
\* or the construction of the node in the storage obtained throws
Failures == {"bad_alloc", "construct"}

\* a createNode whose handler rethrows without giving the storage back
createNodeThrows_keeps_storage(s, a, failure) ==
    IF failure = "bad_alloc" THEN s
    ELSE [s EXCEPT !.live = @ \cup {a}]

\* createNode left by an exception: allocate throws before anything was
\* obtained, or construct throws in storage a and the handler deallocates
\* a before it rethrows
createNodeThrows(s, a, failure) ==
    IF failure = "bad_alloc" THEN s
    ELSE Then([s EXCEPT !.live = @ \cup {a}], LAMBDA s1 :
              [s1 EXCEPT !.live = @ \ {a}])

\* insertNode when createNode throws: the exception leaves insertNode from
\* the initialiser of newNode, its first statement
insertNodeThrows(s, a, k, failure) ==
    [thrown |-> TRUE, s |-> createNodeThrows(s, a, failure)]

insertNode(s, a, k, v) ==
    Then([createNode(s, a, k, v) EXCEPT !.tmp = a], LAMBDA s0 :
    Then(descend(s0, s0.root, NULL, k), LAMBDA y :
    Then(Wr(s0, a, "parent", y), LAMBDA s1 :
    Then(IF y = NULL THEN MoveAssign(s1, RootLink, TmpLink)
         ELSE IF k < s1.mem[y].key
              THEN MoveAssign(s1, <<y, "left">>, TmpLink)
         ELSE MoveAssign(s1, <<y, "right">>, TmpLink), LAMBDA s2 :
    Then(find(s2, k), LAMBDA inserted :
    Then(fixInsert(s2, inserted), LAMBDA s3 :
         IF Stopped(s3) THEN s3
         ELSE [s3 EXCEPT !.node_count = @ + 1]))))))

\* minimum / maximum: leftmost / rightmost descent
RECURSIVE minimum(_, _)
minimum(s, node) ==
    IF node # NULL /\ s.mem[node].left # NULL
    THEN minimum(s, s.mem[node].left) ELSE node

RECURSIVE maximum(_, _)
maximum(s, node) ==
    IF node # NULL /\ s.mem[node].right # NULL
    THEN maximum(s, s.mem[node].right) ELSE node

\* transplant(u, v): v is itself a link, often a member of the node u
transplant(s, u, vLink) ==
    IF Stopped(s) THEN s
    ELSE LET uLink == getLink(s, u)
             v  == Get(s, vLink)
         IN  MoveAssign(IF v # NULL THEN Wr(s, v, "parent", s.mem[u].parent)
                        ELSE s,
                        uLink, vLink)

IsBlackOrNull(s, p) == p = NULL \/ s.mem[p].color = BLACK

\* one iteration of the fixDelete loop for an x that is the `near` child
\* of its parent ("left": lines 192-224, "right": lines 228-260)
fixDeleteStep(s, x, near) ==
    LET far == Other(near)
        xp == s.mem[x].parent
        w0 == s.mem[xp][far]
        red == w0 # NULL /\ s.mem[w0].color = RED
    IN
    Then(IF red
         THEN Rotate(Wr(Wr(s, w0, "color", BLACK), xp, "color", RED),
                     near, xp)
         ELSE s, LAMBDA s1 :
    Then(IF red THEN Fld(s1, Fld(s1, x, "parent"), far) ELSE w0, LAMBDA w1 :
         IF Stopped(s1) THEN <<s1, x>>
         ELSE IF w1 = NULL THEN <<Fault(s1), x>>
         ELSE IF IsBlackOrNull(s1, s1.mem[w1].left)
                 /\ IsBlackOrNull(s1, s1.mem[w1].right)
         THEN <<Wr(s1, w1, "color", RED), s1.mem[x].parent>>
         ELSE
         Then(IsBlackOrNull(s1, s1.mem[w1][far]), LAMBDA turn :
         Then(s1.mem[w1][near], LAMBDA wn :
         Then(IF turn
              THEN Rotate(Wr(IF wn # NULL
                             THEN Wr(s1, wn, "color", BLACK)
                             ELSE s1,
                             w1, "color", RED),
                          far, w1)
              ELSE s1, LAMBDA s2 :
         Then(IF turn THEN Fld(s2, Fld(s2, x, "parent"), far) ELSE w1,
              LAMBDA w2 :
         Then(Fld(s2, x, "parent"), LAMBDA p2 :
         Then(Wr(s2, w2, "color", Fld(s2, p2, "color")), LAMBDA s3 :
         Then(Wr(s3, p2, "color", BLACK), LAMBDA s4 :
         Then(Fld(s4, w2, far), LAMBDA wf :
         Then(IF wf # NULL THEN Wr(s4, wf, "color", BLACK) ELSE s4,
              LAMBDA s5 :
         Then(Rotate(s5, near, Fld(s5, x, "parent")), LAMBDA s6 :
              <<s6, s6.root>>))))))))))))

RECURSIVE fixDeleteLoop(_, _, _)
fixDeleteLoop(s, x, fuel) ==
    IF Stopped(s) THEN <<s, x>>
    ELSE IF x = s.root THEN <<s, x>>
    ELSE IF x # NULL /\ s.mem[x].color # BLACK THEN <<s, x>>
    ELSE IF x = NULL \/ s.mem[x].parent = NULL THEN <<Fault(s), x>>
    ELSE IF fuel = 0 THEN <<[s EXCEPT !.hung = TRUE], x>>
    ELSE Then(fixDeleteStep(s, x, IF x = s.mem[s.mem[x].parent].left
                                  THEN "left" ELSE "right"),
              LAMBDA r : fixDeleteLoop(r[1], r[2], fuel - 1))

fixDelete(s, x) ==
    Then(fixDeleteLoop(s, x, MaxFuel), LAMBDA r :
         IF r[2] # NULL THEN Wr(r[1], r[2], "color", BLACK) ELSE r[1])

deleteNode(s, z) ==
    IF z = NULL THEN s
    ELSE IF s.mem[z].left = NULL
    THEN Then(transplant(s, z, <<z, "right">>), LAMBDA s1 :
              IF s.mem[z].color = BLACK /\ s.mem[z].right # NULL
              THEN fixDelete(s1, s.mem[z].right) ELSE s1)
    ELSE IF s.mem[z].right = NULL
    THEN Then(transplant(s, z, <<z, "left">>), LAMBDA s1 :
              IF s.mem[z].color = BLACK /\ s.mem[z].left # NULL
              THEN fixDelete(s1, s.mem[z].left) ELSE s1)
    ELSE LET y  == minimum(s, s.mem[z].right)
             y_original_color == s.mem[y].color
             x  == s.mem[y].right
         IN
         Then(IF s.mem[y].parent = z
              THEN IF x # NULL THEN Wr(s, x, "parent", y) ELSE s
              ELSE Then(transplant(IF x # NULL
                                   THEN Wr(s, x, "parent", s.mem[y].parent)
                                   ELSE s,
                                   y, <<y, "right">>), LAMBDA t2 :
                   Then(MoveAssign(t2, <<y, "right">>, <<z, "right">>),
                        LAMBDA t3 :
                        IF Fld(t3, y, "right") # NULL
                        THEN Wr(t3, Fld(t3, y, "right"), "parent", y)
                        ELSE t3)), LAMBDA s1 :
         Then(transplant(s1, z, getLink(s1, z)), LAMBDA s2 :
         Then(MoveAssign(s2, <<y, "left">>, <<z, "left">>), LAMBDA s3 :
         Then(IF Fld(s3, y, "left") # NULL
              THEN Wr(s3, Fld(s3, y, "left"), "parent", y) ELSE s3,
              LAMBDA s4 :
         Then(Wr(s4, y, "color", Fld(s4, z, "color")), LAMBDA s5 :
              IF y_original_color = BLACK /\ x # NULL THEN fixDelete(s5, x)
              ELSE s5)))))

\* a removeNode that counts the call down although no node was found
removeNode_counts_absent(s, key) ==
    LET z == find(s, key)
    IN  IF z = NULL THEN [s EXCEPT !.node_count = @ - 1]
        ELSE Then(deleteNode(s, z), LAMBDA s1 :
                  IF Stopped(s1) THEN s1
                  ELSE [s1 EXCEPT !.node_count = @ - 1])

\* removeNode: node_count-- is a size_t decrement
removeNode(s, key) ==
    LET z == find(s, key)
    IN  IF z = NULL THEN s
        ELSE Then(deleteNode(s, z), LAMBDA s1 :
                  IF Stopped(s1) THEN s1
                  ELSE [s1 EXCEPT !.node_count = @ - 1])

\* clearHelper: post-order, the node is reset after both its subtrees
RECURSIVE clearHelper(_, _)
clearHelper(s, nodePtr) ==
    LET n == Get(s, nodePtr)
    IN  IF Stopped(s) \/ n = NULL THEN s
        ELSE Reset(clearHelper(clearHelper(s, <<n, "left">>), <<n, "right">>),
                   nodePtr, NULL)

\* a clear that leaves the count as it was
clear_keeps_count(s) ==
    clearHelper(s, RootLink)

clear(s) ==
    Then(clearHelper(s, RootLink), LAMBDA s1 :
         IF Stopped(s1) THEN s1 ELSE [s1 EXCEPT !.node_count = 0])

TreeSize(s) == s.node_count

\* minNode / maxNode
minNode(s) == minimum(s, s.root)

maxNode(s) == IF s.root = NULL THEN NULL ELSE maximum(s, s.root)

\* successor: the ascent through the parents while node is a right child
RECURSIVE successorUp(_, _, _)
successorUp(s, node, p) ==
    IF p # NULL /\ node = s.mem[p].right
    THEN successorUp(s, p, s.mem[p].parent) ELSE p

RECURSIVE predecessorUp(_, _, _)
predecessorUp(s, node, p) ==
    IF p # NULL /\ node = s.mem[p].left
    THEN predecessorUp(s, p, s.mem[p].parent) ELSE p

\* a successor whose ascent tests the wrong child
successor_wrong_side(s, node) ==
    IF node = NULL THEN NULL
    ELSE IF s.mem[node].right # NULL THEN minimum(s, s.mem[node].right)
    ELSE predecessorUp(s, node, s.mem[node].parent)

successor(s, node) ==
    IF node = NULL THEN NULL
    ELSE IF s.mem[node].right # NULL THEN minimum(s, s.mem[node].right)
    ELSE successorUp(s, node, s.mem[node].parent)

predecessor(s, node) ==
    IF node = NULL THEN NULL
    ELSE IF s.mem[node].left # NULL THEN maximum(s, s.mem[node].left)
    ELSE predecessorUp(s, node, s.mem[node].parent)

\* ---- mystl::map ----
\* insert(value) { tree.insertNode(value); }; emplace, emplace_hint,
\* insert_range and the initializer-list constructor are calls of insert
map_insert(s, a, k, v) == insertNode(s, a, k, v)

\* erase(key) { tree.removeNode(key); }
map_erase(s, k) == removeNode(s, k)

map_clear(s) == clear(s)

insert_or_assign(s, a, k, v) ==
    LET it == find(s, k)
    IN  IF it # NULL THEN Wr(s, it, "val", v) ELSE map_insert(s, a, k, v)

try_emplace(s, a, k, v) ==
    IF find(s, k) # NULL THEN s ELSE map_insert(s, a, k, v)

\* operator[]: the state it leaves; the reference it returns is to the
\* value of find(key) in that state
subscript(s, a, k) ==
    IF find(s, k) = NULL THEN map_insert(s, a, k, DefaultVal) ELSE s

\* the node whose mapped value operator[] returns a reference to: it, found
\* at once or by the second find after the insertion
subscript_it(s, a, k) == find(subscript(s, a, k), k)

\* find(key) == iterator(tree.find(key)); count and contains test it
map_find(s, k) == find(s, k)

count(s, k) == IF find(s, k) # NULL THEN 1 ELSE 0

contains(s, k) == find(s, k) # NULL

\* an at that hands out the value behind the iterator without testing it
at_unchecked(s, k) ==
    [thrown |-> FALSE, node |-> map_find(s, k), s |-> s]

\* at: std::out_of_range when find(key) == end(), else a reference to the
\* mapped value of the node found; s is the map it leaves
at(s, k) ==
    LET it == map_find(s, k)
    IN  IF it = NULL THEN [thrown |-> TRUE, node |-> NULL, s |-> s]
        ELSE [thrown |-> FALSE, node |-> it, s |-> s]

\* extract: std::out_of_range when find(key) == end(), else the pair is
\* copied and the key erased
extract(s, k) ==
    LET it == map_find(s, k)
    IN  IF it = NULL THEN [thrown |-> TRUE, val |-> <<>>, s |-> s]
        ELSE [thrown |-> FALSE,
              val |-> <<s.mem[it].key, s.mem[it].val>>,
              s |-> map_erase(s, k)]

\* lower_bound: the descent from the root that keeps the last node whose
\* key is not less than key
RECURSIVE lowerFrom(_, _, _, _)
lowerFrom(s, current, candidate, key) ==
    IF current = NULL THEN candidate
    ELSE IF ~(s.mem[current].key < key)
         THEN lowerFrom(s, s.mem[current].left, current, key)
    ELSE lowerFrom(s, s.mem[current].right, candidate, key)

lower_bound(s, key) == lowerFrom(s, s.root, NULL, key)

\* upper_bound: the same descent keeping the last node whose key is
\* greater than key
RECURSIVE upperFrom(_, _, _, _)
upperFrom(s, current, candidate, key) ==
    IF current = NULL THEN candidate
    ELSE IF key < s.mem[current].key
         THEN upperFrom(s, s.mem[current].left, current, key)
    ELSE upperFrom(s, s.mem[current].right, candidate, key)

upper_bound(s, key) == upperFrom(s, s.root, NULL, key)

equal_range(s, key) == <<lower_bound(s, key), upper_bound(s, key)>>

size(s) == TreeSize(s)

empty(s) == size(s) = 0

\* begin() / end(); iterator::operator++ and operator-- are successor and
\* predecessor of the node the iterator holds
begin(s) == minNode(s)

end == NULL

\* for (it = begin(); it != end(); ++it): the nodes visited
RECURSIVE forward(_, _, _)
forward(s, it, fuel) ==
    IF it = end \/ fuel = 0 THEN <<>>
    ELSE <<it>> \o forward(s, successor(s, it), fuel - 1)

Forward(s) == forward(s, begin(s), MaxAddr + 1)

\* for (rit = rbegin(); rit != rend(); ++rit) with rbegin() ==
\* reverse_iterator(end()) and rend() == reverse_iterator(begin()): *rit
\* decrements a copy of the held iterator and dereferences it, ++rit
\* decrements the held iterator.  fault: a null node was dereferenced.
RECURSIVE backward(_, _, _)
backward(s, current, fuel) ==
    IF current = begin(s) \/ fuel = 0 THEN [visited |-> <<>>, fault |-> FALSE]
    ELSE LET tmp == predecessor(s, current)
         IN  IF tmp = NULL THEN [visited |-> <<>>, fault |-> TRUE]
             ELSE Then(backward(s, predecessor(s, current), fuel - 1),
                       LAMBDA rest : [visited |-> <<tmp>> \o rest.visited,
                                      fault |-> rest.fault])

Backward(s) == backward(s, end, MaxAddr + 1)

\* erase(pos): end() is handed back at once; otherwise the iterator after
\* pos is taken, the key of pos erased and that iterator returned
erase_at(s, pos) ==
    IF pos = end THEN [next |-> pos, s |-> s]
    ELSE Then(successor(s, pos), LAMBDA next :
              [next |-> next, s |-> map_erase(s, s.mem[pos].key)])

\* operator==(lhs, rhs): the sizes, then both maps walked side by side
\* from begin() until lhs is at its end.  fault: *it2 dereferenced a null
\* node; hung: the walk did not end
Pair(s, it) == <<s.mem[it].key, s.mem[it].val>>

RECURSIVE equalFrom(_, _, _, _, _)
equalFrom(l, r, it1, it2, fuel) ==
    IF it1 = end THEN [value |-> TRUE, fault |-> FALSE, hung |-> FALSE]
    ELSE IF fuel = 0 THEN [value |-> FALSE, fault |-> FALSE, hung |-> TRUE]
    ELSE IF it2 = NULL THEN [value |-> FALSE, fault |-> TRUE, hung |-> FALSE]
    ELSE IF Pair(l, it1) # Pair(r, it2)
         THEN [value |-> FALSE, fault |-> FALSE, hung |-> FALSE]
    ELSE equalFrom(l, r, successor(l, it1), successor(r, it2), fuel - 1)

map_equal(l, r) ==
    IF TreeSize(l) # TreeSize(r)
    THEN [value |-> FALSE, fault |-> FALSE, hung |-> FALSE]
    ELSE equalFrom(l, r, begin(l), begin(r), MaxAddr + 1)

\* operator< of std::pair: by the key, then by the mapped value
PairLess(p, q) == p[1] < q[1] \/ (~(q[1] < p[1]) /\ p[2] < q[2])

\* operator<(lhs, rhs): std::lexicographical_compare over [begin(), end())
\* of both maps
RECURSIVE lexFrom(_, _, _, _, _)
lexFrom(l, r, it1, it2, fuel) ==
    IF it1 = end \/ it2 = end \/ fuel = 0 THEN it1 = end /\ it2 # end
    ELSE IF PairLess(Pair(l, it1), Pair(r, it2)) THEN TRUE
    ELSE IF PairLess(Pair(r, it2), Pair(l, it1)) THEN FALSE
    ELSE lexFrom(l, r, successor(l, it1), successor(r, it2), fuel - 1)

map_less(l, r) == lexFrom(l, r, begin(l), begin(r), MaxAddr + 1)

\* node_alloc.allocate(1) in the map with machine state t
AllocateIn(t) == CHOOSE a \in Addr \ t.live : \A b \in Addr \ t.live : a <= b

\* copyHelper of the copy constructor and of operator= of RedBlackTree:
\* the data of node is inserted into the tree t, then the left and the
\* right subtree of node in the source src are copied.  fault: the
\* allocator has no storage left
RECURSIVE copyHelper(_, _, _)
copyHelper(t, src, node) ==
    IF node = NULL \/ Stopped(t) THEN t
    ELSE IF t.live = Addr THEN Fault(t)
    ELSE Then(insertNode(t, AllocateIn(t), src.mem[node].key,
                         src.mem[node].val), LAMBDA t1 :
         Then(copyHelper(t1, src, src.mem[node].left), LAMBDA t2 :
              copyHelper(t2, src, src.mem[node].right)))

\* RedBlackTree(const RedBlackTree& other), which map(const map&) calls:
\* an empty tree with node_count 0, filled by copyHelper(other.root)
copy_construct(src) ==
    copyHelper([src EXCEPT !.root = NULL, !.tmp = NULL,
                           !.mem = [a \in Addr |-> Blank], !.live = {},
                           !.node_count = 0, !.freed = <<>>],
               src, src.root)

\* map::operator=(const map& other): clear(), then insert(*it) for every
\* it from other.begin() to other.end()
RECURSIVE insertEach(_, _, _)
insertEach(t, src, visited) ==
    IF visited = <<>> \/ Stopped(t) THEN t
    ELSE IF t.live = Addr THEN Fault(t)
    ELSE insertEach(map_insert(t, AllocateIn(t), src.mem[Head(visited)].key,
                               src.mem[Head(visited)].val),
                    src, Tail(visited))

copy_assign(t, src) == insertEach(map_clear(t), src, Forward(src))

\* merge(source) on the map a with source b: current = it++, and if a does
\* not contain the key of current, insert(*current) into a and
\* source.erase(key).  visited: the nodes current has been; an iterator
\* that holds a released node reads what the node held (uaf); fault: the
\* allocator has no storage left; hung: the loop did not end
RECURSIVE mergeFrom(_, _, _, _, _)
mergeFrom(a, b, it, visited, fuel) ==
    IF it = end \/ Stopped(a) \/ Stopped(b)
    THEN [a |-> a, b |-> b, visited |-> visited]
    ELSE IF fuel = 0
    THEN [a |-> a, b |-> [b EXCEPT !.hung = TRUE], visited |-> visited]
    ELSE Then(IF it \in b.live THEN b ELSE [b EXCEPT !.uaf = TRUE],
              LAMBDA b0 :
         Then(successor(b0, it), LAMBDA next :
         Then(Pair(b0, it), LAMBDA data :
              IF contains(a, data[1])
              THEN mergeFrom(a, b0, next, Append(visited, it), fuel - 1)
              ELSE IF a.live = Addr
              THEN [a |-> Fault(a), b |-> b0, visited |-> visited]
              ELSE mergeFrom(map_insert(a, AllocateIn(a), data[1], data[2]),
                             map_erase(b0, data[1]),
                             next, Append(visited, it), fuel - 1))))

merge(a, b) == mergeFrom(a, b, begin(b), <<>>, MaxFuel)

\* erase_if(pred), pred the set of the keys whose elements satisfy the
\* predicate: if pred(*it) then to_erase = it++, erase(to_erase->first),
\* ++count, else ++it.  stale: the iterator held a released node at the
\* head of the loop, and the loop went on with what the node held
RECURSIVE erase_ifFrom(_, _, _, _, _, _)
erase_ifFrom(s, pred, it, erased, stale, fuel) ==
    IF it = end \/ Stopped(s)
    THEN [s |-> s, count |-> erased, stale |-> stale]
    ELSE IF fuel = 0
    THEN [s |-> [s EXCEPT !.hung = TRUE], count |-> erased, stale |-> stale]
    ELSE Then(IF it \in s.live THEN s ELSE [s EXCEPT !.uaf = TRUE],
              LAMBDA s0 :
         Then(successor(s0, it), LAMBDA next :
              IF s0.mem[it].key \in pred
              THEN erase_ifFrom(map_erase(s0, s0.mem[it].key), pred, next,
                                erased + 1, stale \/ it \notin s.live,
                                fuel - 1)
              ELSE erase_ifFrom(s0, pred, next, erased,
                                stale \/ it \notin s.live, fuel - 1)))

erase_if(s, pred) == erase_ifFrom(s, pred, begin(s), 0, FALSE, MaxFuel)

\* ---- address naming ----
\* No operation depends on the value of an address, only on which addresses
\* are equal, and the allocator may hand out any free one.  After every
\* operation the addresses are therefore renamed by a permutation of Addr:
\* the nodes linked under root in pre-order, then the other nodes in use,
\* then the free storage.  Every pointer of the state is renamed with it.
InSeq(x, q) == \E i \in 1..Len(q) : q[i] = x

RECURSIVE Walk(_, _, _)
Walk(s, p, seen) ==
    IF p = NULL \/ InSeq(p, seen) THEN seen
    ELSE Walk(s, s.mem[p].right, Walk(s, s.mem[p].left, Append(seen, p)))

RECURSIVE Asc(_)
Asc(S) ==
    IF S = {} THEN <<>>
    ELSE LET m == CHOOSE a \in S : \A b \in S : a <= b
         IN  <<m>> \o Asc(S \ {m})

Range(q) == {q[i] : i \in 1..Len(q)}

Naming(s) ==
    Then(Walk(s, s.root, <<>>), LAMBDA linked :
         linked \o Asc(s.live \ Range(linked))
                \o Asc(Addr \ (s.live \cup Range(linked))))

Renamed(order, p) ==
    IF p = NULL THEN NULL ELSE CHOOSE i \in 1..Len(order) : order[i] = p

\* Storage handed back to the allocator holds nothing the program may rely
\* on once the operation that released it has returned, and a node that no
\* link leads to any more (a leaked one) is never read again: only the
\* nodes linked under root keep their contents between operations.
Scrub(s) ==
    Then(Range(Walk(s, s.root, <<>>)), LAMBDA linked :
         [a \in Addr |-> IF a \in s.live /\ a \in linked THEN s.mem[a]
                         ELSE Blank])

\* node_alloc.allocate(1): the lowest address not in use
Allocate == CHOOSE a \in Addr \ live : \A b \in Addr \ live : a <= b

\* a map as its constructor leaves it
NoMap ==
    [root |-> NULL, mem |-> [a \in Addr |-> Blank], live |-> {},
     node_count |-> 0, held |-> {}]

\* ---- operations of the program ----
Init ==
    /\ root = NULL
    /\ mem = [a \in Addr |-> Blank]
    /\ live = {}
    /\ node_count = 0
    /\ status = "ok"
    /\ net = 0
    /\ held = [k \in Keys |-> 0]
    /\ thrown = "none"
    /\ rhs = NoMap

\* The outcomes of an operation that ran to s.  One that touched released
\* memory either runs on over the stale contents or is aborted there; a
\* null dereference or a double release aborts it; a loop out of fuel hangs.
\* Nothing of the tree is left once the process is aborted or hangs.
Outcomes(s) ==
    IF s.hung THEN {"hung"}
    ELSE IF s.fault THEN {"crashed"}
    ELSE IF s.uaf \/ s.dfree THEN {"ok", "crashed"}
    ELSE {"ok"}

\* the tree an operation leaves, with its addresses renamed
Install(s, order, m) ==
    /\ root' = Renamed(order, s.root)
    /\ mem' = [i \in Addr |->
                [m[order[i]] EXCEPT !.left = Renamed(order, @),
                                    !.right = Renamed(order, @),
                                    !.parent = Renamed(order, @)]]
    /\ live' = {Renamed(order, a) : a \in s.live}

Commit(s, n) ==
    \E outcome \in Outcomes(s) :
        /\ status' = outcome
        /\ thrown' = "none"
        /\ IF outcome # "ok"
           THEN /\ root' = NULL
                /\ mem' = [a \in Addr |-> Blank]
                /\ live' = {}
                /\ node_count' = 0
                /\ net' = 0
                /\ rhs' = NoMap
           ELSE /\ Install(s, Naming(s), Scrub(s))
                /\ node_count' = s.node_count
                /\ net' = n
                /\ rhs' = rhs

Present(k) == find(Cur, k) # NULL

\* the nodes linked under root, and whether one of them holds key k
Linked == Range(Walk(Cur, root, <<>>))

Holds(k) == \E n \in Linked : mem[n].key = k

DoInsert(k, v) ==
    /\ status = "ok"
    /\ live # Addr
    /\ Commit(map_insert(Cur, Allocate, k, v), net + 1)

DoErase(k) ==
    /\ status = "ok"
    /\ node_count > -MaxWrap
    /\ Commit(map_erase(Cur, k), IF Present(k) THEN net - 1 ELSE net)

DoClear ==
    /\ status = "ok"
    /\ Commit(map_clear(Cur), 0)

\* -- any sequence of insert, erase and clear --
Insert(k, v) == DoInsert(k, v) /\ UNCHANGED held

Erase(k) == DoErase(k) /\ UNCHANGED held

Clear == DoClear /\ UNCHANGED held

Next ==
    \/ \E k \in Keys, v \in Vals : Insert(k, v)
    \/ \E k \in Keys : Erase(k)
    \/ Clear

Spec == Init /\ [][Next]_vars

\* -- insert, erase and clear of keys alone: no operation of the tree reads
\*    a mapped value, every element is inserted as (k, mapped_type()) --
InsertKey(k) ==
    /\ Cardinality(live) < MaxNodes
    /\ Insert(k, DefaultVal)

NextKeys ==
    \/ \E k \in Keys : InsertKey(k)
    \/ \E k \in Keys : Erase(k)
    \/ Clear

SpecKeys == Init /\ [][NextKeys]_vars

\* -- the calls of the facade on keys: a call that throws leaves by the
\*    exception, which the caller catches --
Caught(exception) ==
    /\ thrown' = exception
    /\ UNCHANGED <<status, net, held, rhs>>

At(k) ==
    /\ status = "ok"
    /\ IF at(Cur, k).thrown
       THEN Caught("out_of_range")
            /\ UNCHANGED <<root, mem, live, node_count>>
       ELSE UNCHANGED vars

Extract(k) ==
    /\ status = "ok"
    /\ node_count > -MaxWrap
    /\ IF extract(Cur, k).thrown
       THEN Caught("out_of_range")
            /\ UNCHANGED <<root, mem, live, node_count>>
       ELSE Commit(extract(Cur, k).s, net - 1) /\ UNCHANGED held

\* an insert whose node cannot be made: what the failed call leaves is
\* what the tree goes on with
InsertFails(k, failure) ==
    /\ status = "ok"
    /\ failure = "construct" => live # Addr
    /\ LET r == insertNodeThrows(Cur, IF live = Addr THEN NULL ELSE Allocate,
                                 k, failure)
       IN  /\ r.thrown
           /\ root' = r.s.root
           /\ mem' = r.s.mem
           /\ live' = r.s.live
           /\ node_count' = r.s.node_count
    /\ Caught(failure)

EraseAt(pos) ==
    /\ status = "ok"
    /\ node_count > -MaxWrap
    /\ pos = end \/ pos \in Linked
    /\ Commit(erase_at(Cur, pos).s,
              IF pos # end /\ Present(mem[pos].key) THEN net - 1 ELSE net)
    /\ UNCHANGED held

NextCalls ==
    \/ \E k \in CallKeys : InsertKey(k)
    \/ \E k \in CallKeys : Erase(k)
    \/ Clear
    \/ \E k \in CallKeys : At(k)
    \/ \E k \in CallKeys : Extract(k)
    \/ \E k \in CallKeys, failure \in Failures : InsertFails(k, failure)
    \/ \E pos \in Addr \cup {end} : EraseAt(pos)

SpecCalls == Init /\ [][NextCalls]_vars

\* -- insert, erase and clear with keys pairwise distinct at insertion
\*    time, and the keys inserted and not yet erased recorded in held --
InsertNew(k, v) ==
    /\ ~Holds(k)
    /\ DoInsert(k, v)
    /\ held' = IF status' = "ok" THEN [held EXCEPT ![k] = @ + 1]
               ELSE [j \in Keys |-> 0]

EraseKey(k) ==
    /\ DoErase(k)
    /\ held' = IF status' # "ok" THEN [j \in Keys |-> 0]
               ELSE IF Present(k)
               THEN [held EXCEPT ![k] = IF @ > 0 THEN @ - 1 ELSE 0]
               ELSE held

ClearAll ==
    /\ DoClear
    /\ held' = [k \in Keys |-> 0]

NextDistinct ==
    \/ \E k \in Keys, v \in Vals : InsertNew(k, v)
    \/ \E k \in Keys : EraseKey(k)
    \/ ClearAll

SpecDistinct == Init /\ [][NextDistinct]_vars

\* -- two maps, each built by insert and erase of keys pairwise distinct
\*    at insertion time: the first holds (k, mapped_type()) elements, the
\*    second elements of any mapped value --
InsertLhs(k) ==
    /\ Cardinality(live) < MaxNodes
    /\ InsertNew(k, DefaultVal)

\* the second map after an operation on it ran to s, holding the pairs h
Settled(s, order, m, h) ==
    [root |-> Renamed(order, s.root),
     mem |-> [i \in Addr |->
                [m[order[i]] EXCEPT !.left = Renamed(order, @),
                                    !.right = Renamed(order, @),
                                    !.parent = Renamed(order, @)]],
     live |-> {Renamed(order, a) : a \in s.live},
     node_count |-> s.node_count,
     held |-> h]

CommitRhs(s, h) ==
    \E outcome \in Outcomes(s) :
        /\ status' = outcome
        /\ thrown' = "none"
        /\ IF outcome # "ok"
           THEN /\ root' = NULL
                /\ mem' = [a \in Addr |-> Blank]
                /\ live' = {}
                /\ node_count' = 0
                /\ net' = 0
                /\ held' = [k \in Keys |-> 0]
                /\ rhs' = NoMap
           ELSE /\ rhs' = Settled(s, Naming(s), Scrub(s), h)
                /\ UNCHANGED <<root, mem, live, node_count, net, held>>

LinkedRhs == Range(Walk(Rhs, rhs.root, <<>>))

InsertRhs(k, v) ==
    /\ status = "ok"
    /\ Cardinality(rhs.live) < MaxOther
    /\ \A n \in LinkedRhs : rhs.mem[n].key # k
    /\ CommitRhs(map_insert(Rhs, CHOOSE a \in Addr \ rhs.live :
                                    \A b \in Addr \ rhs.live : a <= b, k, v),
                 rhs.held \cup {<<k, v>>})

EraseRhs(k) ==
    /\ status = "ok"
    /\ rhs.node_count > -MaxWrap
    /\ CommitRhs(map_erase(Rhs, k),
                 IF find(Rhs, k) # NULL
                 THEN {p \in rhs.held : p[1] # k} ELSE rhs.held)

NextTwo ==
    \/ \E k \in Keys : InsertLhs(k)
    \/ \E k \in Keys : EraseKey(k)
    \/ \E k \in Keys, v \in {DefaultVal} \cup Vals : InsertRhs(k, v)
    \/ \E k \in Keys : EraseRhs(k)

SpecTwo == Init /\ [][NextTwo]_vars

\* -- a map built by insert and erase of distinct keys, the second map
\*    made a copy of it by the copy constructor or by copy assignment,
\*    and erase and insert on the copy --
CopyConstruct ==
    /\ status = "ok"
    /\ rhs = NoMap
    /\ CommitRhs(copy_construct(Cur),
                 {<<k, DefaultVal>> : k \in {j \in Keys : held[j] > 0}})

CopyAssign ==
    /\ status = "ok"
    /\ CommitRhs(copy_assign(Rhs, Cur),
                 {<<k, DefaultVal>> : k \in {j \in Keys : held[j] > 0}})

NextCopy ==
    \/ \E k \in Keys : InsertLhs(k)
    \/ \E k \in Keys : EraseKey(k)
    \/ CopyConstruct
    \/ CopyAssign
    \/ \E k \in Keys : InsertRhs(k, DefaultVal)
    \/ \E k \in Keys : EraseRhs(k)

SpecCopy == Init /\ [][NextCopy]_vars

\* -- a map built by insert of distinct keys and erase_if --
EraseIf(pred) ==
    /\ status = "ok"
    /\ node_count > -MaxWrap
    /\ Commit(erase_if(Cur, pred).s,
              net + (erase_if(Cur, pred).s.node_count - node_count))
    /\ held' = [k \in Keys |->
                  IF status' # "ok" \/ k \in pred THEN 0 ELSE held[k]]

NextEraseIf ==
    \/ \E k \in Keys, v \in Vals : InsertNew(k, v)
    \/ \E pred \in SUBSET Keys : EraseIf(pred)

SpecEraseIf == Init /\ [][NextEraseIf]_vars

\* -- two maps built by insert of distinct keys, the first of
\*    (k, mapped_type()) elements and the second of elements with other
\*    values, and the second merged into the first --
InsertInto(k) ==
    /\ Cardinality(live) + Cardinality(rhs.live) < MaxBoth
    /\ InsertNew(k, DefaultVal)

InsertSource(k, v) ==
    /\ status = "ok"
    /\ Cardinality(live) + Cardinality(rhs.live) < MaxBoth
    /\ \A n \in LinkedRhs : rhs.mem[n].key # k
    /\ CommitRhs(map_insert(Rhs, AllocateIn(Rhs), k, v),
                 rhs.held \cup {<<k, v>>})

\* both maps after an operation on the two ran to a and b; the pairs of
\* the source whose key the first map did not hold are now held by the
\* first map
CommitBoth(a, b) ==
    \E outcome \in {IF oa # "ok" THEN oa ELSE ob :
                        oa \in Outcomes(a), ob \in Outcomes(b)} :
        /\ status' = outcome
        /\ thrown' = "none"
        /\ IF outcome # "ok"
           THEN /\ root' = NULL
                /\ mem' = [i \in Addr |-> Blank]
                /\ live' = {}
                /\ node_count' = 0
                /\ net' = 0
                /\ held' = [k \in Keys |-> 0]
                /\ rhs' = NoMap
           ELSE /\ Install(a, Naming(a), Scrub(a))
                /\ node_count' = a.node_count
                /\ net' = net + (a.node_count - node_count)
                /\ held' = [k \in Keys |->
                              IF held[k] = 0 /\ \E p \in rhs.held : p[1] = k
                              THEN 1 ELSE held[k]]
                /\ rhs' = Settled(b, Naming(b), Scrub(b),
                                  {p \in rhs.held : held[p[1]] > 0})

Merge ==
    /\ status = "ok"
    /\ rhs.node_count > -MaxWrap
    /\ CommitBoth(merge(Cur, Rhs).a, merge(Cur, Rhs).b)

NextMerge ==
    \/ \E k \in Keys : InsertInto(k)
    \/ \E k \in Keys, v \in Vals : InsertSource(k, v)
    \/ Merge

SpecMerge == Init /\ [][NextMerge]_vars

\* -- the mutations of the map facade --
InsertOrAssign(k, v) ==
    /\ status = "ok"
    /\ IF Present(k)
       THEN Commit(insert_or_assign(Cur, NULL, k, v), net)
       ELSE /\ live # Addr
            /\ Commit(insert_or_assign(Cur, Allocate, k, v), net + 1)
    /\ UNCHANGED held

TryEmplace(k, v) ==
    /\ status = "ok"
    /\ IF Present(k)
       THEN Commit(try_emplace(Cur, NULL, k, v), net)
       ELSE /\ live # Addr
            /\ Commit(try_emplace(Cur, Allocate, k, v), net + 1)
    /\ UNCHANGED held

Subscript(k) ==
    /\ status = "ok"
    /\ IF Present(k)
       THEN Commit(subscript(Cur, NULL, k), net)
       ELSE /\ live # Addr
            /\ Commit(subscript(Cur, Allocate, k), net + 1)
    /\ UNCHANGED held

NextMap ==
    \/ \E k \in Keys, v \in Vals : Insert(k, v)
    \/ \E k \in Keys : Erase(k)
    \/ Clear
    \/ \E k \in Keys, v \in Vals : InsertOrAssign(k, v)
    \/ \E k \in Keys, v \in Vals : TryEmplace(k, v)
    \/ \E k \in Keys : Subscript(k)

SpecMap == Init /\ [][NextMap]_vars

\* ---- what the properties speak about ----
\* in-order sequence of the nodes of the subtree at p (left, node, right)
RECURSIVE Inorder(_, _)
Inorder(s, p) ==
    IF p = NULL THEN <<>>
    ELSE Inorder(s, s.mem[p].left) \o <<p>> \o Inorder(s, s.mem[p].right)

InorderNodes(s) == Inorder(s, s.root)

PairsOf(s, q) == [i \in 1..Len(q) |-> <<s.mem[q[i]].key, s.mem[q[i]].val>>]

KeysOf(s, q) == [i \in 1..Len(q) |-> s.mem[q[i]].key]

Subtree(s, p) == Range(Walk(s, p, <<>>))

RemoveAt(q, i) == [j \in 1..(Len(q) - 1) |-> IF j < i THEN q[j] ELSE q[j + 1]]

IndexOf(q, x) == CHOOSE i \in 1..Len(q) : q[i] = x

Reverse(q) == [i \in 1..Len(q) |-> q[Len(q) + 1 - i]]

StrictlyIncreasing(q) == \A i \in 1..(Len(q) - 1) : q[i] < q[i + 1]

\* number of BLACK nodes on each path from p down to a null child
RECURSIVE BlackCounts(_, _)
BlackCounts(s, p) ==
    IF p = NULL THEN {0}
    ELSE {c + (IF s.mem[p].color = BLACK THEN 1 ELSE 0) :
            c \in BlackCounts(s, s.mem[p].left)
                  \cup BlackCounts(s, s.mem[p].right)}

RootBlack(s) == s.root # NULL => s.mem[s.root].color = BLACK

NoRedRed(s) ==
    \A n \in Subtree(s, s.root) :
        s.mem[n].color = RED =>
            /\ IsBlackOrNull(s, s.mem[n].left)
            /\ IsBlackOrNull(s, s.mem[n].right)

EqualBlackHeight(s) == Cardinality(BlackCounts(s, s.root)) = 1

SearchTree(s) ==
    \A n \in Subtree(s, s.root) :
        /\ \A m \in Subtree(s, s.mem[n].left) : s.mem[m].key < s.mem[n].key
        /\ \A m \in Subtree(s, s.mem[n].right) : s.mem[n].key < s.mem[m].key

\* no linked node points to a node outside the tree (Scrub rests on it)
LinkedClosed == \A n \in Linked : mem[n].parent \in Linked \cup {NULL}

\* it is the element of smallest key among the elements C, end() if C is
\* empty
SmallestOf(s, C, it) ==
    IF C = {} THEN it = end
    ELSE it \in C /\ \A n \in C : s.mem[it].key <= s.mem[n].key

\* ---- properties ----

\* C1: after each completed insertNode / removeNode of a run whose keys are
\* pairwise distinct at insertion time, the root is BLACK, no RED node has a
\* RED parent and every root-to-null path has the same number of BLACK nodes.
C1_RedBlackAfterEveryCall ==
    status = "ok" =>
        RootBlack(Cur) /\ NoRedRed(Cur) /\ EqualBlackHeight(Cur)

\* C2: for every key k present, erase(k) completes and leaves the in-order
\* sequence of (key, value) pairs equal to the previous one with the pair of
\* k's node removed.
C2_EraseRemovesExactlyThePair ==
    status = "ok" =>
        \A k \in Keys :
            Present(k) =>
                LET s == map_erase(Cur, k)
                    q == InorderNodes(Cur)
                IN  /\ ~Stopped(s)
                    /\ PairsOf(s, InorderNodes(s))
                         = RemoveAt(PairsOf(Cur, q), IndexOf(q, find(Cur, k)))

\* C3: find(k) returns a node holding k for every key inserted and not yet
\* deleted, and absent for every other key.
C3_FindTracksInsertedKeys ==
    status = "ok" =>
        \A k \in Keys :
            IF held[k] > 0
            THEN find(Cur, k) # NULL /\ mem[find(Cur, k)].key = k
            ELSE find(Cur, k) = NULL

\* C4: TreeSize() equals the number of nodes a traversal from minNode() via
\* successor visits, and equals inserts minus successful removes.
C4_SizeIsTraversalCount ==
    status = "ok" =>
        /\ TreeSize(Cur) = Len(Forward(Cur))
        /\ TreeSize(Cur) = net

\* C5: after every completed insertNode / removeNode the tree is a binary
\* search tree: left subtree keys less, right subtree keys greater.
C5_SearchTreeOrder == status = "ok" => SearchTree(Cur)

\* C6: after any sequence of facade mutations no two elements of the map
\* have equivalent keys.
C6_KeysUnique ==
    \A a, b \in Linked : a # b => mem[a].key # mem[b].key

\* the states the operations can leave from the current one
Results ==
    {map_erase(Cur, k) : k \in Keys} \cup {map_clear(Cur)}
      \cup (IF live = Addr THEN {}
            ELSE {map_insert(Cur, Allocate, k, v) : k \in Keys, v \in Vals})

\* C7: no node is released twice, no released node is linked into the tree
\* or touched by the running operation, and clear leaves no node allocated.
C7_ReleasedExactlyOnce ==
    status = "ok" =>
        /\ Linked \subseteq live
        /\ \A s \in Results :
              ~s.uaf /\ ~s.dfree /\ Subtree(s, s.root) \subseteq s.live
        /\ map_clear(Cur).live = {}

\* C8: a node reference to the element with key a stays live and keeps its
\* (key, value) pair over every insertion and over the erase of any other
\* key b, which releases nothing but the node that held b.
C8_OtherIteratorsStayValid ==
    status = "ok" =>
        \A n \in Linked :
            /\ \A b \in Keys \ {mem[n].key} :
                  LET s == map_erase(Cur, b)
                  IN  ~Stopped(s) =>
                        /\ n \in s.live
                        /\ s.mem[n].key = mem[n].key
                        /\ s.mem[n].val = mem[n].val
                        /\ (live \ s.live) \subseteq {find(Cur, b)}
            /\ live # Addr =>
                  \A k \in Keys, v \in Vals :
                      LET s == map_insert(Cur, Allocate, k, v)
                      IN  ~Stopped(s) =>
                            /\ n \in s.live
                            /\ s.mem[n].key = mem[n].key
                            /\ s.mem[n].val = mem[n].val

\* C9: for every pair (a, b) of adjacent nodes of the in-order sequence
\* successor(a) = b and predecessor(b) = a; successor of the maximum node
\* and predecessor of the minimum node are absent.
C9_SuccessorPredecessorConsistent ==
    LET q == InorderNodes(Cur)
    IN  /\ \A i \in 1..(Len(q) - 1) :
              /\ successor(Cur, q[i]) = q[i + 1]
              /\ predecessor(Cur, q[i + 1]) = q[i]
        /\ successor(Cur, maxNode(Cur)) = NULL
        /\ predecessor(Cur, minNode(Cur)) = NULL
        /\ q # <<>> => maxNode(Cur) = q[Len(q)] /\ minNode(Cur) = q[1]

\* a tree left by an erase that did not unlink its node (the counter is
\* below the number of nodes), in which some successor is found by climbing
\* over more than one parent
C9_Witness ==
    /\ status = "ok"
    /\ node_count < Len(InorderNodes(Cur))
    /\ \E n \in Linked :
          /\ mem[n].right = NULL
          /\ successor(Cur, n) # NULL
          /\ successor(Cur, n) # mem[n].parent

\* C10: iteration from begin() to end() visits the keys in strictly
\* increasing order, and iteration from rbegin() to rend() visits the same
\* elements in the reverse order.
C10_ReverseIterationMirrorsForward ==
    status = "ok" =>
        /\ StrictlyIncreasing(KeysOf(Cur, Forward(Cur)))
        /\ ~Backward(Cur).fault
        /\ Backward(Cur).visited = Reverse(Forward(Cur))

\* C11: at(k) and extract(k) on a key that no element holds throw
\* std::out_of_range and leave the map as it was; find(k) is end(),
\* contains(k) is false and count(k) is 0.
C11_AbsentKeyThrows ==
    status = "ok" =>
        \A k \in Keys :
            ~Holds(k) =>
                /\ at(Cur, k).thrown /\ at(Cur, k).s = Cur
                /\ extract(Cur, k).thrown /\ extract(Cur, k).s = Cur
                /\ map_find(Cur, k) = end
                /\ ~contains(Cur, k)
                /\ count(Cur, k) = 0

\* a call has thrown on a map that holds elements, after an erase that
\* left its node linked
C11_Witness ==
    /\ status = "ok"
    /\ thrown = "out_of_range"
    /\ root # NULL
    /\ node_count < Len(InorderNodes(Cur))
    /\ \E k \in Keys : ~Holds(k) /\ extract(Cur, k).thrown

\* C12: erase(k) / removeNode(k) of a key that no element holds returns
\* normally and leaves nodes, links, colours and the size counter as they
\* were.
C12_EraseAbsentIsNoOp ==
    status = "ok" =>
        \A k \in Keys :
            ~Holds(k) => /\ map_erase(Cur, k) = Cur
                         /\ removeNode(Cur, k) = Cur

\* an absent key that lies between two keys of the tree, so that the
\* search of the erase descends before it gives up
C12_Witness ==
    /\ status = "ok"
    /\ \E k \in Keys :
          /\ ~Holds(k)
          /\ \E a, b \in Linked : mem[a].key < k /\ k < mem[b].key
          /\ map_erase(Cur, k) = Cur

\* C13: an insertion whose node storage cannot be obtained, or whose node
\* cannot be constructed in the storage obtained, propagates the failure
\* and leaves the tree as before the call: same nodes, links, colours,
\* size, and no storage kept.
C13_InsertFailsAtomically ==
    status = "ok" =>
        \A k \in Keys :
            /\ insertNodeThrows(Cur, NULL, k, "bad_alloc")
                  = [thrown |-> TRUE, s |-> Cur]
            /\ live # Addr =>
                  insertNodeThrows(Cur, Allocate, k, "construct")
                    = [thrown |-> TRUE, s |-> Cur]

\* the construction of a node has failed for a tree that holds elements,
\* and the storage it had obtained is free again
C13_Witness ==
    /\ status = "ok"
    /\ thrown = "construct"
    /\ root # NULL
    /\ live # Addr
    /\ Allocate \notin live

\* C14: for every key k, lower_bound(k) is the element of smallest key not
\* less than k, upper_bound(k) the element of smallest key greater than k,
\* each end() when there is none; equal_range(k) is the pair of the two.
C14_BoundsAreSmallestElements ==
    status = "ok" =>
        \A k \in Keys :
            /\ SmallestOf(Cur, {n \in Linked : ~(mem[n].key < k)},
                          lower_bound(Cur, k))
            /\ SmallestOf(Cur, {n \in Linked : k < mem[n].key},
                          upper_bound(Cur, k))
            /\ equal_range(Cur, k)[1] = lower_bound(Cur, k)
            /\ equal_range(Cur, k)[2] = upper_bound(Cur, k)

\* the pairs the first map holds, and the pairs S in key order
HeldPairs == {<<k, DefaultVal>> : k \in {j \in Keys : held[j] > 0}}

RECURSIVE InKeyOrder(_)
InKeyOrder(S) ==
    IF S = {} THEN <<>>
    ELSE LET p == CHOOSE x \in S : \A y \in S : x[1] <= y[1]
         IN  <<p>> \o InKeyOrder(S \ {p})

\* p is before q in the lexicographic order of sequences of pairs
LexLess(p, q) ==
    \E i \in 1..Len(q) :
        /\ i <= Len(p) + 1
        /\ \A j \in 1..(i - 1) : p[j] = q[j]
        /\ i = Len(p) + 1 \/ PairLess(p[i], q[i])

\* C15: for two maps built by insert and erase, operator== is true exactly
\* when both hold the same set of (key, value) pairs, and operator< is the
\* lexicographic order of their sequences of pairs in key order, in both
\* directions of the comparison.
C15_ComparisonIsByContents ==
    status = "ok" =>
        /\ ~map_equal(Cur, Rhs).fault /\ ~map_equal(Rhs, Cur).fault
        /\ map_equal(Cur, Rhs).value <=> HeldPairs = rhs.held
        /\ map_equal(Rhs, Cur).value <=> HeldPairs = rhs.held
        /\ map_less(Cur, Rhs)
               <=> LexLess(InKeyOrder(HeldPairs), InKeyOrder(rhs.held))
        /\ map_less(Rhs, Cur)
               <=> LexLess(InKeyOrder(rhs.held), InKeyOrder(HeldPairs))

\* C16: in a map whose tree is in search order, erase(pos) for pos at an
\* element returns, removes exactly that element, and
\* returns the element that followed pos in key order (end() after the
\* last), which is in use and still linked in the map; erase(end())
\* returns end() and changes nothing.
C16_EraseAtReturnsFollowing ==
    (status = "ok" /\ SearchTree(Cur)) =>
        /\ erase_at(Cur, end) = [next |-> end, s |-> Cur]
        /\ \A pos \in Linked :
               Then(erase_at(Cur, pos), LAMBDA r :
                    /\ ~Stopped(r.s)
                    /\ Subtree(r.s, r.s.root) = Linked \ {pos}
                    /\ r.s.live = live \ {pos}
                    /\ SmallestOf(Cur, {n \in Linked :
                                            mem[pos].key < mem[n].key}, r.next)
                    /\ r.next # end => /\ r.next \in r.s.live
                                       /\ r.next \in Subtree(r.s, r.s.root))

\* C17: operator[](k) on a map that holds an element of key k returns a
\* reference to the value of such an element and leaves the map as it
\* was; with no element of key k it inserts exactly one element
\* (k, mapped_type()), the size grows by one and the reference is to the
\* value of the new element.
C17_SubscriptFindsOrInserts ==
    (status = "ok" /\ live # Addr) =>
        \A k \in Keys :
            Then(subscript(Cur, Allocate, k), LAMBDA r :
            Then(subscript_it(Cur, Allocate, k), LAMBDA it :
                 IF Holds(k)
                 THEN /\ r = Cur
                      /\ it \in Linked
                      /\ mem[it].key = k
                 ELSE /\ ~Stopped(r)
                      /\ Subtree(r, r.root) = Linked \cup {Allocate}
                      /\ \A n \in Linked : Pair(r, n) = Pair(Cur, n)
                      /\ Pair(r, Allocate) = <<k, DefaultVal>>
                      /\ TreeSize(r) = TreeSize(Cur) + 1
                      /\ it = Allocate))

\* C18: clear() releases every node linked under the root exactly once and
\* no other, each child before its parent, touching no released node;
\* afterwards the root is absent, size() is 0, empty() is true,
\* begin() == end(), and an insertion makes the new node the BLACK root of
\* a one-element tree, as in a tree just constructed.
C18_ClearReleasesChildrenFirst ==
    status = "ok" =>
        Then(map_clear(Cur), LAMBDA r :
             /\ ~Stopped(r) /\ ~r.uaf /\ ~r.dfree
             /\ Range(r.freed) = Linked
             /\ Len(r.freed) = Cardinality(Linked)
             /\ r.live = live \ Linked
             /\ \A n \in Linked :
                    \A c \in {mem[n].left, mem[n].right} \ {NULL} :
                        IndexOf(r.freed, c) < IndexOf(r.freed, n)
             /\ r.root = NULL
             /\ size(r) = 0 /\ empty(r) /\ begin(r) = end
             /\ r.live # Addr =>
                    \A k \in Keys :
                        Then(CHOOSE a \in Addr : a \notin r.live, LAMBDA a :
                        Then(map_insert(r, a, k, DefaultVal), LAMBDA f :
                             /\ ~Stopped(f)
                             /\ f.root = a
                             /\ f.mem[a] = [Node(k, DefaultVal)
                                              EXCEPT !.color = BLACK]
                             /\ size(f) = 1
                             /\ f.live = r.live \cup {a})))

\* a tree with a node of two children is cleared
C18_Witness ==
    /\ status = "ok"
    /\ \E n \in Linked : mem[n].left # NULL /\ mem[n].right # NULL
    /\ Len(map_clear(Cur).freed) >= 3
    /\ map_clear(Cur).root = NULL
    /\ node_count # 0

\* the four invariants of a red-black tree
RedBlack(s) ==
    /\ SearchTree(s)
    /\ RootBlack(s)
    /\ NoRedRed(s)
    /\ EqualBlackHeight(s)

\* C19: if the tree satisfies the four invariants and holds no key k, then
\* insertNode((k, v)) returns with a tree that satisfies them again, whose
\* nodes are the previous ones, unchanged in key and value, and one new
\* node holding (k, v), and whose in-order key sequence is the previous
\* one with k at its sorted position; its root is BLACK.
C19_InsertStepKeepsInvariants ==
    (status = "ok" /\ live # Addr /\ RedBlack(Cur)) =>
        \A k \in Keys, v \in {DefaultVal} \cup Vals :
            ~Holds(k) =>
                Then(insertNode(Cur, Allocate, k, v), LAMBDA r :
                     /\ ~Stopped(r) /\ ~r.uaf /\ ~r.dfree
                     /\ RedBlack(r)
                     /\ r.mem[r.root].color = BLACK
                     /\ Subtree(r, r.root) = Linked \cup {Allocate}
                     /\ Pair(r, Allocate) = <<k, v>>
                     /\ \A n \in Linked : Pair(r, n) = Pair(Cur, n)
                     /\ KeysOf(Cur, InorderNodes(Cur))
                            = Asc({mem[n].key : n \in Linked})
                     /\ KeysOf(r, InorderNodes(r))
                            = Asc({mem[n].key : n \in Linked} \cup {k})
                     /\ size(r) = size(Cur) + 1)

\* a BLACK root with two RED children and no other node: the fixup of the
\* next insertion recolours the children BLACK and the root RED, and the
\* root is BLACK when insertNode returns
C19_Witness ==
    /\ status = "ok" /\ live # Addr /\ RedBlack(Cur)
    /\ Cardinality(Linked) = 3
    /\ root # NULL
    /\ mem[root].left # NULL /\ mem[mem[root].left].color = RED
    /\ mem[root].right # NULL /\ mem[mem[root].right].color = RED
    /\ \E k \in Keys :
           /\ ~Holds(k)
           /\ Then(insertNode(Cur, Allocate, k, DefaultVal), LAMBDA r :
                   /\ r.root = root
                   /\ r.mem[root].color = BLACK
                   /\ r.mem[mem[root].left].color = BLACK
                   /\ r.mem[mem[root].right].color = BLACK
                   /\ r.mem[Allocate].color = RED
                   /\ Allocate \in Subtree(r, r.root))

\* C20: removing a BLACK node that has no children and is not the root
\* from a tree that satisfies the four invariants returns and leaves a tree
\* in which every path from the root to a null link has the same number
\* of BLACK nodes.
C20_BlackLeafRemovalKeepsBlackHeight ==
    (status = "ok" /\ RedBlack(Cur)) =>
        \A z \in Linked :
            (/\ z # root
             /\ mem[z].color = BLACK
             /\ mem[z].left = NULL
             /\ mem[z].right = NULL) =>
                Then(removeNode(Cur, mem[z].key), LAMBDA r :
                     /\ ~Stopped(r)
                     /\ z \notin Subtree(r, r.root)
                     /\ EqualBlackHeight(r))

\* C21: an insertNode call on a tree without a RED node under a RED parent,
\* whatever its key, one equal to a key of the tree included, returns and
\* leaves no RED node, the new one included, with a RED parent.
C21_InsertLeavesNoRedRed ==
    (status = "ok" /\ live # Addr /\ RootBlack(Cur) /\ NoRedRed(Cur)) =>
        \A k \in Keys, v \in Vals :
            Then(insertNode(Cur, Allocate, k, v), LAMBDA r :
                 /\ ~Stopped(r)
                 /\ Allocate \in Subtree(r, r.root)
                 /\ NoRedRed(r))

\* every child of a node linked under the root names that node as its
\* parent, and the root names none
ParentsMatch(s) ==
    /\ s.root # NULL => s.mem[s.root].parent = NULL
    /\ \A n \in Subtree(s, s.root) :
           \A c \in {s.mem[n].left, s.mem[n].right} \ {NULL} :
               s.mem[c].parent = n

\* r is s rotated at pivot, whose child on the side `from` is promoted:
\* the child stands where the pivot stood, the pivot is its child on the
\* other side, the subtree between them changed sides, and nothing else
\* changed
RotatedAt(s, r, pivot, from) ==
    LET to    == Other(from)
        child == s.mem[pivot][from]
        moved == s.mem[child][to]
        above == s.mem[pivot].parent
    IN  /\ ~Stopped(r) /\ ~r.uaf /\ ~r.dfree
        /\ r.live = s.live /\ r.freed = <<>> /\ r.node_count = s.node_count
        /\ IF above = NULL THEN r.root = child
           ELSE /\ r.root = s.root
                /\ r.mem[above] =
                      IF s.mem[above].left = pivot
                      THEN [s.mem[above] EXCEPT !.left = child]
                      ELSE [s.mem[above] EXCEPT !.right = child]
        /\ r.mem[child] = [s.mem[child] EXCEPT !.parent = above,
                                               ![to] = pivot]
        /\ r.mem[pivot] = [s.mem[pivot] EXCEPT !.parent = child,
                                               ![from] = moved]
        /\ moved # NULL => r.mem[moved] = [s.mem[moved] EXCEPT !.parent = pivot]
        /\ \A n \in Addr \ {above, child, pivot, moved} : r.mem[n] = s.mem[n]
        /\ \A n \in Addr : r.mem[n].color = s.mem[n].color
        /\ KeysOf(r, InorderNodes(r)) = KeysOf(s, InorderNodes(s))
        /\ ParentsMatch(r)

\* C22: in a tree whose parent pointers match its links, leftRotate(x) and
\* rightRotate(y) change nothing when the pivot is null or has no right,
\* resp. left, child; otherwise the child takes the place of the pivot
\* under the pivot's parent or at the root, the in-order keys of the tree
\* and the match of parents and links are kept, no colour changes and no
\* node other than the pivot, its parent's link, the promoted child and
\* the root of the subtree that moves between them is written.
C22_RotationsRewireLocally ==
    (status = "ok" /\ ParentsMatch(Cur)) =>
        /\ leftRotate(Cur, NULL) = Cur
        /\ rightRotate(Cur, NULL) = Cur
        /\ \A pivot \in Linked :
               /\ IF mem[pivot].right = NULL
                  THEN leftRotate(Cur, pivot) = Cur
                  ELSE RotatedAt(Cur, leftRotate(Cur, pivot), pivot, "right")
               /\ IF mem[pivot].left = NULL
                  THEN rightRotate(Cur, pivot) = Cur
                  ELSE RotatedAt(Cur, rightRotate(Cur, pivot), pivot, "left")

\* one tree in which a pivot under a parent is rotated to the right and a
\* pivot whose right child has a left subtree is rotated to the left
C22_Witness ==
    /\ status = "ok" /\ ParentsMatch(Cur)
    /\ \E pivot \in Linked :
           /\ mem[pivot].parent # NULL
           /\ mem[pivot].left # NULL
           /\ rightRotate(Cur, pivot).mem[pivot].parent = mem[pivot].left
           /\ rightRotate(Cur, pivot).mem[mem[pivot].left].parent
                  = mem[pivot].parent
    /\ \E pivot \in Linked :
           /\ mem[pivot].right # NULL
           /\ mem[mem[pivot].right].left # NULL
           /\ leftRotate(Cur, pivot).mem[pivot].parent = mem[pivot].right
           /\ leftRotate(Cur, pivot).mem[pivot].right
                  = mem[mem[pivot].right].left

\* the number of places node n is linked from: the root link and the child
\* links of the nodes in use
LinksTo(s, n) ==
    (IF s.root = n THEN 1 ELSE 0)
    + Cardinality({m \in s.live : s.mem[m].left = n})
    + Cardinality({m \in s.live : s.mem[m].right = n})

\* C23: after every completed insert, erase or clear the root names no
\* parent, every child names the node that links to it as its parent,
\* every node in use is linked from exactly one place, and following the
\* links from the root never comes back to a node (every node in use is
\* under the root, and none twice).
C23_LinksConsistent ==
    status = "ok" =>
        /\ ParentsMatch(Cur)
        /\ \A n \in live : LinksTo(Cur, n) = 1
        /\ Linked = live
        /\ Len(InorderNodes(Cur)) = Cardinality(Linked)

\* the call that ran to r followed a null reference or released a node
\* twice (fault), or its fixup loop did not end within MaxFuel iterations
Completes(r) == ~r.fault /\ ~r.hung

\* C24: every insertNode and every removeNode call started in a state that
\* such calls lead to returns: its fixup loop ends and follows no null
\* parent, grandparent or sibling.
C24_CallsRunToCompletion ==
    status = "ok" =>
        /\ \A k \in Keys : Completes(removeNode(Cur, k))
        /\ live # Addr =>
               \A k \in Keys, v \in Vals :
                   Completes(insertNode(Cur, Allocate, k, v))

\* c is a copy of src: the same pairs in order, the same size, and a
\* red-black tree
CopyOf(c, src) ==
    /\ ~Stopped(c) /\ ~c.uaf /\ ~c.dfree
    /\ PairsOf(c, InorderNodes(c)) = PairsOf(src, InorderNodes(src))
    /\ PairsOf(c, Forward(c)) = PairsOf(src, Forward(src))
    /\ size(c) = size(src)
    /\ RedBlack(c)

\* C25: the copy constructor, and copy assignment to the second map
\* whatever it holds, give a map with the in-order pairs and the size of
\* the source that is a red-black tree; the copy is made of nodes of its
\* own, and the source is as it was.
C25_CopyEqualsSource ==
    status = "ok" =>
        /\ CopyOf(copy_construct(Cur), Cur)
        /\ CopyOf(copy_assign(Rhs, Cur), Cur)

\* the elements of the map s and their keys; s is a search tree whose
\* count is the number of its nodes
Content(s) == {Pair(s, n) : n \in Subtree(s, s.root)}

KeySet(s) == {s.mem[n].key : n \in Subtree(s, s.root)}

WellFormed(s) ==
    /\ SearchTree(s)
    /\ ParentsMatch(s)
    /\ s.node_count = Cardinality(Subtree(s, s.root))

\* C26: for two maps that are search trees with correct counts,
\* a.merge(b) returns, leaves in a its own elements and the elements of b
\* whose key a did not hold, leaves in b exactly the elements whose key a
\* held, keeps size(a) + size(b), and its loop had each element of b as
\* current once, in key order.
C26_MergeMovesAbsentKeys ==
    (/\ status = "ok"
     /\ WellFormed(Cur) /\ WellFormed(Rhs)
     /\ Cardinality(live) + Cardinality(rhs.live) <= MaxAddr) =>
        Then(merge(Cur, Rhs), LAMBDA r :
             /\ ~Stopped(r.a) /\ ~Stopped(r.b)
             /\ Content(r.a) = Content(Cur) \cup
                                  {p \in Content(Rhs) : p[1] \notin KeySet(Cur)}
             /\ Content(r.b) = {p \in Content(Rhs) : p[1] \in KeySet(Cur)}
             /\ size(r.a) + size(r.b) = size(Cur) + size(Rhs)
             /\ r.visited = InorderNodes(Rhs))

\* C27: on a map that is a search tree with a correct count, erase_if(pred)
\* returns, leaves exactly the elements that do not satisfy pred, returns
\* the number of elements that satisfied it, decreases size() by that
\* number, and its iterator never holds a released node.
C27_EraseIfRemovesMatching ==
    (status = "ok" /\ WellFormed(Cur)) =>
        \A pred \in SUBSET Keys :
            Then(erase_if(Cur, pred), LAMBDA r :
                 /\ ~Stopped(r.s)
                 /\ Content(r.s) = {p \in Content(Cur) : p[1] \notin pred}
                 /\ r.count = Cardinality({p \in Content(Cur) : p[1] \in pred})
                 /\ size(r.s) = size(Cur) - r.count
                 /\ ~r.stale)

====
